---- MODULE Spec2Model ----
(***************************************************************************)
(* Model of worker/main.py: the scrape -> filter -> score -> notify ->     *)
(* callback pipeline (run_scrape_job), the profile adapter                 *)
(* (convert_profile) with its module-level SKILL_TIERS table, and the      *)
(* callback reporter (_post_callback).                                     *)
(*                                                                         *)
(* Text is modelled as sequences of one-character strings wherever the     *)
(* code converts or searches it (str.lower, substring tests).              *)
(*                                                                         *)
(* Three specifications share the actions:                                 *)
(*   Spec       one run after another, collaborators in all their variety  *)
(*   SpecPool   two runs interleaved at every step                         *)
(*   SpecAdapt  one run after another, over all profiles                   *)
(*   SpecPrefs  one run after another, over all Preferences records        *)
(*   SpecAuth   the endpoint under every Authorization header              *)
(*   SpecLive   SpecAuth with fair scheduling of the runs                  *)
(***************************************************************************)
EXTENDS Integers, Sequences, FiniteSets, TLC

\* ------------------------------------------------------------------------
\* Bounds of the model
\* ------------------------------------------------------------------------
NumSubs == 2
MaxSkills == 2
MaxJobs == 2
MaxLocs == 2

\* ------------------------------------------------------------------------
\* Text helpers
\* ------------------------------------------------------------------------
UpperChars == <<"A","B","C","D","E","F","G","H","I","J","K","L","M",
                "N","O","P","Q","R","S","T","U","V","W","X","Y","Z">>

LowerChars == <<"a","b","c","d","e","f","g","h","i","j","k","l","m",
                "n","o","p","q","r","s","t","u","v","w","x","y","z">>

\* str.lower() on one character
LowerChar(c) ==
    IF \E n \in DOMAIN UpperChars : UpperChars[n] = c
    THEN LowerChars[CHOOSE n \in DOMAIN UpperChars : UpperChars[n] = c]
    ELSE c

\* str.lower()
Lower(str) == [n \in DOMAIN str |-> LowerChar(str[n])]

\* the characters str.strip() removes
WhiteSpace == {" ", "\t", "\n"}

RECURSIVE LStrip(_)
LStrip(str) ==
    IF str # <<>> /\ Head(str) \in WhiteSpace THEN LStrip(Tail(str)) ELSE str

RECURSIVE RStrip(_)
RStrip(str) ==
    IF str # <<>> /\ str[Len(str)] \in WhiteSpace
    THEN RStrip(SubSeq(str, 1, Len(str) - 1))
    ELSE str

\* str.strip()
Strip(str) == RStrip(LStrip(str))

\* Python's `needle in hay` on two strings
Contains(hay, needle) ==
    \E n \in 0..(Len(hay) - Len(needle)) :
        SubSeq(hay, n + 1, n + Len(needle)) = needle

\* the empty dict
EmptyMap == [k \in {} |-> 0]

\* dict.get(key, default)
Get(d, key, default) == IF key \in DOMAIN d THEN d[key] ELSE default

\* d[key] = value
Put(d, key, value) == [k \in (DOMAIN d) \cup {key} |-> IF k = key THEN value ELSE d[k]]

\* ------------------------------------------------------------------------
\* Profile adaptation
\* ------------------------------------------------------------------------
TIER_WEIGHTS == [core |-> 5, strong |-> 3, peripheral |-> 1]

\* variant: a tier that is not in TIER_WEIGHTS gets weight 0
TierWeightZeroDefault(tier) == Get(TIER_WEIGHTS, tier, 0)

\* weight = TIER_WEIGHTS.get(skill.tier, 1)
TierWeight(tier) == Get(TIER_WEIGHTS, tier, 1)

\* the key under which convert_profile stores a skill
SkillKey(skill) == Lower(skill.name)

\* variant: the key is the skill name as given, not lowercased
WriteTierRawKey(table, skill) == Put(table, skill.name, TierWeight(skill.tier))

\* variant: an entry that exists is kept (setdefault instead of assignment)
WriteTierKeepFirst(table, skill) ==
    IF SkillKey(skill) \in DOMAIN table THEN table
    ELSE Put(table, SkillKey(skill), TierWeight(skill.tier))

\* one pass of the second loop of convert_profile: SKILL_TIERS[name.lower()] = weight
WriteTier(table, skill) == Put(table, SkillKey(skill), TierWeight(skill.tier))

\* the dict convert_profile returns
AdaptedProfile(profile) ==
    [skills   |-> {profile.skills[n].name : n \in DOMAIN profile.skills},
     titles   |-> profile.titles,
     keywords |-> {profile.keywords[n] : n \in DOMAIN profile.keywords}]

\* ------------------------------------------------------------------------
\* Preference resolution
\* ------------------------------------------------------------------------
AdelaideAu == <<"A","d","e","l","a","i","d","e",","," ","A","u","s","t","r","a","l","i","a">>
SydneyAu == <<"S","y","d","n","e","y",","," ","A","u","s","t","r","a","l","i","a">>
MelbourneAu == <<"M","e","l","b","o","u","r","n","e",","," ","A","u","s","t","r","a","l","i","a">>

\* the default locations and search terms of the scrape module
LOCATIONS == <<AdelaideAu, SydneyAu, MelbourneAu>>
ROLE_SEARCHES == <<"software engineer", "data engineer">>

loc_map ==
    (<<"a","d","e","l","a","i","d","e">> :> AdelaideAu) @@ (<<"s","y","d","n","e","y">> :> SydneyAu) @@ (<<"m","e","l","b","o","u","r","n","e">> :> MelbourneAu)

\* loc_map.get(loc.lower().strip()): the mapped form, or nothing (None)
Mapped(loc) ==
    LET key == Strip(Lower(loc))
    IN  IF key \in DOMAIN loc_map THEN {loc_map[key]} ELSE {}

\* one pass of `for loc in preference_locations:`; `if mapped:` is the truth
\* value of an Optional[str]
ResolveOne(loc) ==
    IF \E m \in Mapped(loc) : m # <<>>
    THEN CHOOSE m \in Mapped(loc) : TRUE
    ELSE loc

\* variant: an empty list of locations stays empty
resolve_locations_no_default(preference_locations) ==
    [n \in DOMAIN preference_locations |-> ResolveOne(preference_locations[n])]

\* resolve_locations
resolve_locations(preference_locations) ==
    IF preference_locations = <<>>
    THEN LOCATIONS
    ELSE LET resolved == [n \in DOMAIN preference_locations |->
                             ResolveOne(preference_locations[n])]
         IN  IF resolved # <<>> THEN resolved ELSE LOCATIONS

\* class Preferences with its defaults
DefaultPreferences ==
    [locations |-> <<>>, roles |-> <<>>, hours_old |-> 72,
     results_per_search |-> 30]

\* step 2 and the call of step 3: scrape_all(locations, search_terms, defaults)
ScrapeCall(preferences) ==
    [locations |-> resolve_locations(preferences.locations),
     search_terms |-> IF preferences.roles # <<>> THEN preferences.roles
                      ELSE ROLE_SEARCHES,
     defaults |-> [sites |-> <<"indeed">>,
                   results_wanted |-> preferences.results_per_search,
                   hours_old |-> preferences.hours_old,
                   job_type |-> {}]]

\* ------------------------------------------------------------------------
\* Data frames
\* ------------------------------------------------------------------------
\* a cell of the "location" column: a string, a missing value (NaN/None),
\* or a value that is not a string
StrCell(text) == [kind |-> "str", text |-> text]
NaNCell == [kind |-> "nan", text |-> <<>>]
NumCell == [kind |-> "num", text |-> <<>>]

Sydney == <<"S","y","d","n","e","y">>
Perth == <<"P","e","r","t","h">>

\* target_cities of step 3b
target_cities ==
    { <<"a","d","e","l","a","i","d","e">>,
      <<"s","y","d","n","e","y">>,
      <<"m","e","l","b","o","u","r","n","e">>,
      <<"r","e","m","o","t","e">>,
      <<"a","u","s","t","r","a","l","i","a">> }

\* variant: the location text is searched as it came, not lowercased
LocLowerAsIs(cell) ==
    IF cell.kind = "str" THEN cell
    ELSE IF cell.kind = "nan" THEN StrCell(<<>>)
    ELSE NaNCell

\* jobs["location"].fillna("").str.lower(), one cell; a non-string cell has
\* no lowercase form and comes out as NaN
LocLower(cell) ==
    IF cell.kind = "str" THEN StrCell(Lower(cell.text))
    ELSE IF cell.kind = "nan" THEN StrCell(<<>>)
    ELSE NaNCell

\* the lambda of au_mask; defined on string cells only
AuMask(cell) == \E c \in target_cities : Contains(cell.text, c)

\* `c in loc` raises TypeError when loc is not a string
FilterRaises(df) ==
    /\ df.hasLocation
    /\ \E n \in DOMAIN df.rows : LocLower(df.rows[n].location).kind # "str"

\* jobs[au_mask].reset_index(drop=True)
RECURSIVE KeepAu(_)
KeepAu(rows) ==
    IF rows = <<>> THEN <<>>
    ELSE IF AuMask(LocLower(Head(rows).location))
         THEN <<Head(rows)>> \o KeepAu(Tail(rows))
         ELSE KeepAu(Tail(rows))

\* step 3b as a whole
GeoFilter(df) ==
    IF df.hasLocation THEN [df EXCEPT !.rows = KeepAu(df.rows)] ELSE df

\* jobs.empty
IsEmpty(df) == Len(df.rows) = 0

\* len(jobs[jobs["score"] >= 20.0])
AboveThreshold(rows) == Cardinality({n \in DOMAIN rows : rows[n].score >= 20})

\* variant: the rows are sorted by rising score
SortedOrdersAscending(rows) ==
    LET N == Len(rows)
        Perms == {f \in [1..N -> 1..N] : \A a, b \in 1..N : f[a] = f[b] => a = b}
    IN  {[n \in 1..N |-> rows[f[n]]] : f \in
            {g \in Perms : \A a, b \in 1..N :
                a < b => rows[g[a]].score <= rows[g[b]].score}}

\* the row orders sort_values("score", ascending=False) can produce: every
\* arrangement of the rows that is non-increasing in score (the default sort
\* kind of sort_values does not promise an order among equal scores)
SortedOrders(rows) ==
    LET N == Len(rows)
        Perms == {f \in [1..N -> 1..N] : \A a, b \in 1..N : f[a] = f[b] => a = b}
    IN  {[n \in 1..N |-> rows[f[n]]] : f \in
            {g \in Perms : \A a, b \in 1..N :
                a < b => rows[g[a]].score >= rows[g[b]].score}}

\* ------------------------------------------------------------------------
\* Inputs
\* ------------------------------------------------------------------------
Subs == 1..NumSubs

\* the skills of the adapter specification: one name in two spellings under
\* every tier of TIER_WEIGHTS and under a tier it does not know, and a
\* second name
Skill ==
    { [name |-> <<"P","y">>, tier |-> "core"],
      [name |-> <<"P","y">>, tier |-> "strong"],
      [name |-> <<"p","y">>, tier |-> "peripheral"],
      [name |-> <<"p","y">>, tier |-> "guru"],
      [name |-> <<"g","o">>, tier |-> "strong"],
      [name |-> <<"G","o">>, tier |-> "core"] }

SkillLists(max) == UNION {[1..n -> Skill] : n \in 0..max}

\* class Profile
Profile(max) ==
    [skills : SkillLists(max), titles : {<<"engineer">>}, keywords : {<<"ml", "ml">>}]

\* class ScrapeRequest, for the submission in slot s
ScrapeRequest(s, max) ==
    [submissionId : {s}, email : {"user@example.com"}, profile : Profile(max),
     preferences : {DefaultPreferences}]

\* the cells of a "location" column: a text that holds two of the tokens, a
\* text that holds none, a missing value, a number
Cells == {StrCell(SydneyAu), StrCell(Perth), NaNCell, NumCell}

\* a frame with a "location" column holding the given cells; id is the row's
\* place in the scraper's output
FrameOf(cells) ==
    [hasLocation |-> TRUE,
     rows |-> [n \in DOMAIN cells |-> [id |-> n, location |-> cells[n]]]]

\* a frame of N rows without a "location" column
BareFrame(N) == [hasLocation |-> FALSE, rows |-> [n \in 1..N |-> [id |-> n]]]

\* what scrape_all can return
Frames(max) ==
    {FrameOf(c) : c \in UNION {[1..N -> Cells] : N \in 0..max}}
        \cup {BareFrame(N) : N \in 0..max}

\* the numbers score_job can return
ScoreVals == {10, 20}

\* str(e) of the exceptions the collaborators can raise
Msgs == {"", "boom"}

\* results of requests.post: a 2xx response, another response, a connection
\* error, a timeout
PostOutcomes == {"2xx", "non2xx", "error", "timeout"}

\* location strings a caller can send: a short name in three spellings, its
\* full form, the empty string, blanks only, and a name loc_map does not know
LocationStrings ==
    { <<"S","y","d","n","e","y">>, <<"s","y","d","n","e","y">>, <<" ","S","Y","D","N","E","Y"," ">>,
      SydneyAu, <<>>, <<" ", " ">>, Perth }

LocationLists(max) == UNION {[1..n -> LocationStrings] : n \in 0..max}

RoleLists == {<<>>, <<"ml engineer">>, <<"ML Engineer ", "ml engineer">>}

\* class Preferences
Preferences(max) ==
    [locations : LocationLists(max), roles : RoleLists, hours_old : {72},
     results_per_search : {30}]

\* the shared secret of a configured worker, and a token that is not it
Secret == "s3cret"
WrongToken == "guess"

\* the Authorization header of a request: absent, or "Bearer <token>"
Headers == {{}, {Secret}, {WrongToken}}

\* the header of a caller that knows the secret
GoodHeaders == {{Secret}}

\* SKILL_TIERS as the scrape module defines it, before any submission
py == <<"p","y">>
go == <<"g","o">>
ModuleTables == {EmptyMap, (py :> 3) @@ (go :> 5)}

\* ------------------------------------------------------------------------
\* State
\* ------------------------------------------------------------------------
VARIABLES
    CALLBACK_URL,   \* os.environ["CALLBACK_URL"], read once at import
    WORKER_SECRET,  \* os.environ["WORKER_SECRET"], read once at import
    http,           \* the last exchange on POST /api/scrape: the Authorization
                    \* header of the request and the response to it
    SKILL_TIERS,    \* the module-level dict shared by all submissions
    writer,         \* history: per key, the slot that wrote it last and the
                    \* weight that slot's whole profile assigns to the key
    pc,             \* per slot: where its run_scrape_job stands
    request,        \* per slot: the ScrapeRequest
    profile,        \* per slot: local `profile` of run_scrape_job
    idx,            \* per slot: position of the running loop
    jobs,           \* per slot: local `jobs`
    pending,        \* per slot: arguments of the _post_callback call being made
    raised,         \* per slot: the exception the top-level handler caught
    seen,           \* per slot: what score_job last read from SKILL_TIERS
    scraped,        \* history, per slot: the frame scrape_all returned, if any
    called,         \* history, per slot: the arguments scrape_all was called with
    log             \* per slot: email sends and callback POSTs, in order

vars == <<CALLBACK_URL, WORKER_SECRET, http, SKILL_TIERS, writer, pc, request, profile, idx, jobs,
          pending, raised, seen, scraped, called, log>>

NoRequest ==
    [submissionId |-> 0, email |-> "",
     profile |-> [skills |-> <<>>, titles |-> <<>>, keywords |-> <<>>],
     preferences |-> DefaultPreferences]

NoProfile == [skills |-> {}, titles |-> <<>>, keywords |-> {}]

NoJobs == [hasLocation |-> FALSE, rows |-> <<>>]

NoPending == [status |-> "", job_count |-> 0, error |-> {}]

\* no request has been made yet
NoExchange == [authorization |-> {}, code |-> 0, body |-> [detail |-> ""]]

Init ==
    /\ CALLBACK_URL \in {"", "https://app.example/api/callback"}
    /\ WORKER_SECRET \in {"", Secret}
    /\ http = NoExchange
    /\ SKILL_TIERS \in ModuleTables
    /\ writer = EmptyMap
    /\ pc = [s \in Subs |-> "idle"]
    /\ request = [s \in Subs |-> NoRequest]
    /\ profile = [s \in Subs |-> NoProfile]
    /\ idx = [s \in Subs |-> 0]
    /\ jobs = [s \in Subs |-> NoJobs]
    /\ pending = [s \in Subs |-> NoPending]
    /\ raised = [s \in Subs |-> {}]
    /\ seen = [s \in Subs |-> EmptyMap]
    /\ scraped = [s \in Subs |-> {}]
    /\ called = [s \in Subs |-> {}]
    /\ log = [s \in Subs |-> <<>>]

\* ------------------------------------------------------------------------
\* Pieces of run_scrape_job and _post_callback
\* ------------------------------------------------------------------------
\* the weight a profile's skill list gives a key when read as the spec reads
\* it: tier weights 5/3/1, 1 for any other tier, the last skill of that
\* lowercased name deciding
SpecWeight(tier) ==
    CASE tier = "core" -> 5
      [] tier = "strong" -> 3
      [] tier = "peripheral" -> 1
      [] OTHER -> 1

SkillKeys(skills) == {Lower(skills[n].name) : n \in DOMAIN skills}

LastWeight(skills, key) ==
    LET at == {n \in DOMAIN skills : Lower(skills[n].name) = key}
        last == CHOOSE n \in at : \A m \in at : m <= n
    IN  SpecWeight(skills[last].tier)

\* Python truth value of the Optional[str] argument `error`
Truthy(error) == \E m \in error : m # ""

\* the JSON body _post_callback builds
Payload(submission_id, status, job_count, error) ==
    LET base == [submissionId |-> submission_id, status |-> status,
                 jobCount |-> job_count]
    IN  IF Truthy(error)
        THEN ("error" :> (CHOOSE m \in error : TRUE)) @@ base
        ELSE base

\* does requests.post raise on this outcome (a non-2xx response is returned)
PostRaises(outcome) == outcome \in {"error", "timeout"}

\* variant: the except clause names ConnectionError only, a timeout escapes
CaughtInPostConnectionOnly(outcome) == outcome # "timeout"

\* is an exception of requests.post caught by the try/except of _post_callback
CaughtInPost(outcome) == TRUE

\* the message of the exception step 3b raises on a frame FilterRaises accepts
FilterError(df) ==
    IF \A n \in DOMAIN df.rows : df.rows[n].location.kind = "num"
    THEN "Can only use .str accessor with string values!"
    ELSE "argument of type 'float' is not iterable"

\* what score_job reads from the shared table for the adapted profile: one
\* lookup per skill, by lowercased name, with the slot that wrote the entry
ReadTiers(adapted) ==
    [k \in {Lower(name) : name \in adapted.skills} |->
        [w |-> Get(SKILL_TIERS, k, 1),
         by |-> Get(writer, k, [by |-> 0, w |-> 0]).by]]

EmailEvent(kind, result, above) ==
    [ev |-> "email", kind |-> kind, result |-> result, above |-> above]

PostEvent(payload, outcome) ==
    [ev |-> "post", payload |-> payload, outcome |-> outcome]

\* `except Exception as e:` of run_scrape_job: the failed callback is next
Handler(s, at, msg) ==
    /\ pc' = [pc EXCEPT ![s] = "post"]
    /\ pending' = [pending EXCEPT ![s] =
                      [status |-> "failed", job_count |-> 0, error |-> {msg}]]
    /\ raised' = [raised EXCEPT ![s] = {[at |-> at, msg |-> msg]}]

\* ------------------------------------------------------------------------
\* Actions
\* ------------------------------------------------------------------------
\* raise HTTPException(status_code, detail), as the response it becomes
HTTPException(status_code, detail) ==
    [raised |-> TRUE, code |-> status_code, body |-> [detail |-> detail]]

\* a dependency that returns the token
Returned(token) == [raised |-> FALSE, token |-> token]

\* security = HTTPBearer(): a request without bearer credentials is refused
\* before verify_auth runs, with 403 or, in later releases of the framework,
\* 401; otherwise the credentials are handed on
security(authorization) ==
    IF authorization = {}
    THEN {HTTPException(403, "Not authenticated"),
          HTTPException(401, "Not authenticated")}
    ELSE {Returned(token) : token \in authorization}

\* variant: the token is not compared with the secret
verify_auth_any_token(credentials) ==
    IF WORKER_SECRET = ""
    THEN HTTPException(500, "WORKER_SECRET not configured on server")
    ELSE Returned(credentials)

\* verify_auth, given the credentials the bearer scheme handed on
verify_auth(credentials) ==
    IF WORKER_SECRET = ""
    THEN HTTPException(500, "WORKER_SECRET not configured on server")
    ELSE IF credentials # WORKER_SECRET
         THEN HTTPException(401, "Invalid authorization token")
         ELSE Returned(credentials)

\* class ScrapeStatus
ScrapeStatus(submissionId, status, message) ==
    [submissionId |-> submissionId, status |-> status, message |-> message]

\* POST /api/scrape with its dependencies: the bearer scheme, verify_auth,
\* then background_tasks.add_task(run_scrape_job, request) and the
\* acknowledgement; s is the place the task takes in the pool
start_scrape(s, req, authorization) ==
    /\ pc[s] = "idle"
    /\ \E bearer \in security(authorization) :
         LET auth == IF bearer.raised THEN bearer ELSE verify_auth(bearer.token)
         IN  IF auth.raised
             THEN /\ http' = [authorization |-> authorization,
                              code |-> auth.code, body |-> auth.body]
                  /\ UNCHANGED <<pc, request>>
             ELSE /\ pc' = [pc EXCEPT ![s] = "queued"]
                  /\ request' = [request EXCEPT ![s] = req]
                  /\ http' = [authorization |-> authorization, code |-> 200,
                              body |-> ScrapeStatus(req.submissionId, "queued",
                                  "Scrape job queued. Results will be emailed.")]
    /\ UNCHANGED <<CALLBACK_URL, WORKER_SECRET, called, scraped, SKILL_TIERS,
                   writer, profile, idx, jobs, pending, raised, seen, log>>

\* the background task starts: run_scrape_job enters convert_profile
RunStart(s) ==
    /\ pc[s] = "queued"
    /\ pc' = [pc EXCEPT ![s] = "convert"]
    /\ idx' = [idx EXCEPT ![s] = 1]
    /\ UNCHANGED <<CALLBACK_URL, WORKER_SECRET, http, called, scraped, SKILL_TIERS, writer, request, profile, jobs,
                   pending, raised, seen, log>>

\* one pass of `for skill in profile.skills:` (the loop that writes the table)
ConvertStep(s) ==
    LET skills == request[s].profile.skills IN
    /\ pc[s] = "convert"
    /\ idx[s] <= Len(skills)
    /\ SKILL_TIERS' = WriteTier(SKILL_TIERS, skills[idx[s]])
    /\ writer' = Put(writer, Lower(skills[idx[s]].name),
                     [by |-> s, w |-> LastWeight(skills, Lower(skills[idx[s]].name))])
    /\ idx' = [idx EXCEPT ![s] = @ + 1]
    /\ UNCHANGED <<CALLBACK_URL, WORKER_SECRET, http, called, scraped, pc, request, profile, jobs, pending, raised,
                   seen, log>>

\* convert_profile returns; step 2 resolves the preferences and run_scrape_job
\* calls scrape_all(locations, search_terms, defaults)
ConvertReturn(s) ==
    /\ pc[s] = "convert"
    /\ idx[s] > Len(request[s].profile.skills)
    /\ profile' = [profile EXCEPT ![s] = AdaptedProfile(request[s].profile)]
    /\ called' = [called EXCEPT ![s] = {ScrapeCall(request[s].preferences)}]
    /\ pc' = [pc EXCEPT ![s] = "scrape"]
    /\ idx' = [idx EXCEPT ![s] = 0]
    /\ UNCHANGED <<CALLBACK_URL, WORKER_SECRET, http, scraped, SKILL_TIERS, writer,
                   request, jobs, pending, raised, seen, log>>

\* variant: the `if jobs.empty:` branch is missing, every frame is filtered
ScrapeNoEmptyBranch(s, df) ==
    /\ pc[s] = "scrape"
    /\ jobs' = [jobs EXCEPT ![s] = df]
    /\ scraped' = [scraped EXCEPT ![s] = {df}]
    /\ pc' = [pc EXCEPT ![s] = "filter"]
    /\ UNCHANGED <<CALLBACK_URL, WORKER_SECRET, http, called, SKILL_TIERS, writer, request, profile, idx,
                   pending, raised, seen, log>>

\* jobs = scrape_all(...) returns, and `if jobs.empty:` chooses the branch
Scrape(s, df) ==
    /\ pc[s] = "scrape"
    /\ jobs' = [jobs EXCEPT ![s] = df]
    /\ scraped' = [scraped EXCEPT ![s] = {df}]
    /\ pc' = [pc EXCEPT ![s] = IF IsEmpty(df) THEN "empty_notify" ELSE "filter"]
    /\ UNCHANGED <<CALLBACK_URL, WORKER_SECRET, http, called, SKILL_TIERS, writer, request, profile, idx,
                   pending, raised, seen, log>>

\* variant: a scrape that raises is tried again from the start of the run
ScrapeRaiseRestart(s, msg) ==
    /\ pc[s] = "scrape"
    /\ pc' = [pc EXCEPT ![s] = "convert"]
    /\ idx' = [idx EXCEPT ![s] = 1]
    /\ UNCHANGED <<CALLBACK_URL, WORKER_SECRET, http, called, scraped, SKILL_TIERS, writer,
                   request, profile, jobs, pending, raised, seen, log>>

\* scrape_all raises
ScrapeRaise(s, msg) ==
    /\ pc[s] = "scrape"
    /\ Handler(s, "scrape", msg)
    /\ UNCHANGED <<CALLBACK_URL, WORKER_SECRET, http, called, scraped, SKILL_TIERS, writer, request, profile, idx,
                   jobs, seen, log>>

\* _send_empty_notification: send_email returns (its result is dropped), then
\* _post_callback(submission_id, "completed", 0) is called
SendEmpty(s, result) ==
    /\ pc[s] = "empty_notify"
    /\ log' = [log EXCEPT ![s] = Append(@, EmailEvent("empty", result, 0))]
    /\ pending' = [pending EXCEPT ![s] =
                      [status |-> "completed", job_count |-> 0, error |-> {}]]
    /\ pc' = [pc EXCEPT ![s] = "post"]
    /\ UNCHANGED <<CALLBACK_URL, WORKER_SECRET, http, called, scraped, SKILL_TIERS, writer, request, profile, idx,
                   jobs, raised, seen>>

\* _send_empty_notification: send_email raises
SendEmptyRaise(s, msg) ==
    /\ pc[s] = "empty_notify"
    /\ log' = [log EXCEPT ![s] = Append(@, EmailEvent("empty", "raised", 0))]
    /\ Handler(s, "empty_notify", msg)
    /\ UNCHANGED <<CALLBACK_URL, WORKER_SECRET, http, called, scraped, SKILL_TIERS, writer, request, profile, idx,
                   jobs, seen>>

\* variant: a frame the geo filter leaves without rows takes the
\* empty-result branch
FilterThenEmptyBranch(s) ==
    /\ pc[s] = "filter"
    /\ IF FilterRaises(jobs[s])
       THEN /\ Handler(s, "filter", FilterError(jobs[s]))
            /\ UNCHANGED <<jobs, idx>>
       ELSE /\ jobs' = [jobs EXCEPT ![s] = GeoFilter(@)]
            /\ pc' = [pc EXCEPT ![s] =
                         IF IsEmpty(GeoFilter(jobs[s])) THEN "empty_notify"
                         ELSE "score"]
            /\ idx' = [idx EXCEPT ![s] = 1]
            /\ UNCHANGED <<pending, raised>>
    /\ UNCHANGED <<CALLBACK_URL, WORKER_SECRET, http, called, scraped, SKILL_TIERS,
                   writer, request, profile, seen, log>>

\* step 3b: the geo filter
Filter(s) ==
    /\ pc[s] = "filter"
    /\ IF FilterRaises(jobs[s])
       THEN /\ Handler(s, "filter", FilterError(jobs[s]))
            /\ UNCHANGED <<jobs, idx>>
       ELSE /\ jobs' = [jobs EXCEPT ![s] = GeoFilter(@)]
            /\ pc' = [pc EXCEPT ![s] = "score"]
            /\ idx' = [idx EXCEPT ![s] = 1]
            /\ UNCHANGED <<pending, raised>>
    /\ UNCHANGED <<CALLBACK_URL, WORKER_SECRET, http, called, scraped, SKILL_TIERS, writer, request, profile, seen, log>>

\* step 4, one row of jobs.apply: score_job reads the table and returns v
ScoreRow(s, v) ==
    /\ pc[s] = "score"
    /\ idx[s] <= Len(jobs[s].rows)
    /\ seen' = [seen EXCEPT ![s] = ReadTiers(profile[s])]
    /\ jobs' = [jobs EXCEPT ![s].rows[idx[s]] = ("score" :> v) @@ @]
    /\ idx' = [idx EXCEPT ![s] = @ + 1]
    /\ UNCHANGED <<CALLBACK_URL, WORKER_SECRET, http, called, scraped, SKILL_TIERS, writer, pc, request, profile,
                   pending, raised, log>>

\* variant: a scoring error is swallowed, the rows get score 0 and the
\* digest goes out
ScoreRaiseSwallowed(s, msg) ==
    /\ pc[s] = "score"
    /\ jobs' = [jobs EXCEPT ![s].rows =
                   [n \in DOMAIN @ |-> ("score" :> 0) @@ @[n]]]
    /\ raised' = [raised EXCEPT ![s] = {[at |-> "score", msg |-> msg]}]
    /\ pc' = [pc EXCEPT ![s] = "notify"]
    /\ idx' = [idx EXCEPT ![s] = 0]
    /\ UNCHANGED <<CALLBACK_URL, WORKER_SECRET, http, called, scraped, SKILL_TIERS, writer, request, profile,
                   pending, seen, log>>

\* step 4 raises: classify_company, detect_seniority or score_job on some
\* row, or the assignment of the column when apply ran on a frame of no rows
ScoreRaise(s, msg) ==
    /\ pc[s] = "score"
    /\ Handler(s, "score", msg)
    /\ UNCHANGED <<CALLBACK_URL, WORKER_SECRET, http, called, scraped, SKILL_TIERS, writer, request, profile, idx,
                   jobs, seen, log>>

\* all rows scored: jobs.sort_values("score", ascending=False)
ScoreDone(s) ==
    /\ pc[s] = "score"
    /\ idx[s] > Len(jobs[s].rows)
    /\ \E sorted \in SortedOrders(jobs[s].rows) :
           jobs' = [jobs EXCEPT ![s].rows = sorted]
    /\ pc' = [pc EXCEPT ![s] = "notify"]
    /\ idx' = [idx EXCEPT ![s] = 0]
    /\ UNCHANGED <<CALLBACK_URL, WORKER_SECRET, http, called, scraped, SKILL_TIERS, writer, request, profile,
                   pending, raised, seen, log>>

\* variant: the callback is posted before the digest is sent
NotifyAfterPost(s, result) ==
    /\ pc[s] = "notify"
    /\ log' = [log EXCEPT ![s] =
                  Append(IF CALLBACK_URL = "" THEN @
                         ELSE Append(@, PostEvent(
                                  Payload(request[s].submissionId, "completed",
                                          Len(jobs[s].rows), {}), "2xx")),
                         EmailEvent("digest", result, AboveThreshold(jobs[s].rows)))]
    /\ pending' = [pending EXCEPT ![s] =
                      [status |-> "completed", job_count |-> Len(jobs[s].rows),
                       error |-> {}]]
    /\ pc' = [pc EXCEPT ![s] = "done"]
    /\ UNCHANGED <<CALLBACK_URL, WORKER_SECRET, http, called, scraped, SKILL_TIERS, writer, request, profile, idx,
                   jobs, raised, seen>>

\* variant: a send_email that returns False is raised as an error
NotifyStrict(s, result) ==
    /\ pc[s] = "notify"
    /\ log' = [log EXCEPT ![s] =
                  Append(@, EmailEvent("digest", result, AboveThreshold(jobs[s].rows)))]
    /\ IF result = "not_sent"
       THEN Handler(s, "notify", "email not sent")
       ELSE /\ pending' = [pending EXCEPT ![s] =
                              [status |-> "completed",
                               job_count |-> Len(jobs[s].rows), error |-> {}]]
            /\ pc' = [pc EXCEPT ![s] = "post"]
            /\ UNCHANGED raised
    /\ UNCHANGED <<CALLBACK_URL, WORKER_SECRET, http, called, scraped, SKILL_TIERS, writer, request, profile, idx,
                   jobs, seen>>

\* variant: the callback reports the number of rows at or above the threshold
NotifyCountsRelevant(s, result) ==
    /\ pc[s] = "notify"
    /\ log' = [log EXCEPT ![s] =
                  Append(@, EmailEvent("digest", result, AboveThreshold(jobs[s].rows)))]
    /\ pending' = [pending EXCEPT ![s] =
                      [status |-> "completed",
                       job_count |-> AboveThreshold(jobs[s].rows), error |-> {}]]
    /\ pc' = [pc EXCEPT ![s] = "post"]
    /\ UNCHANGED <<CALLBACK_URL, WORKER_SECRET, http, called, scraped, SKILL_TIERS,
                   writer, request, profile, idx, jobs, raised, seen>>

\* step 5: the digest is rendered, send_email returns True or False, then
\* _post_callback(submission_id, "completed", len(jobs)) is called
Notify(s, result) ==
    /\ pc[s] = "notify"
    /\ log' = [log EXCEPT ![s] =
                  Append(@, EmailEvent("digest", result, AboveThreshold(jobs[s].rows)))]
    /\ pending' = [pending EXCEPT ![s] =
                      [status |-> "completed", job_count |-> Len(jobs[s].rows),
                       error |-> {}]]
    /\ pc' = [pc EXCEPT ![s] = "post"]
    /\ UNCHANGED <<CALLBACK_URL, WORKER_SECRET, http, called, scraped, SKILL_TIERS, writer, request, profile, idx,
                   jobs, raised, seen>>

\* step 5: render_email_html raises, before any send
RenderRaise(s, msg) ==
    /\ pc[s] = "notify"
    /\ Handler(s, "render", msg)
    /\ UNCHANGED <<CALLBACK_URL, WORKER_SECRET, http, called, scraped, SKILL_TIERS, writer, request, profile, idx,
                   jobs, seen, log>>

\* step 5: send_email raises
NotifyRaise(s, msg) ==
    /\ pc[s] = "notify"
    /\ log' = [log EXCEPT ![s] =
                  Append(@, EmailEvent("digest", "raised", AboveThreshold(jobs[s].rows)))]
    /\ Handler(s, "notify", msg)
    /\ UNCHANGED <<CALLBACK_URL, WORKER_SECRET, http, called, scraped, SKILL_TIERS, writer, request, profile, idx,
                   jobs, seen>>

\* variant: a POST that did not get a 2xx response is sent a second time
PostCallbackRetry(s, outcome) ==
    LET event == PostEvent(Payload(request[s].submissionId, pending[s].status,
                                   pending[s].job_count, pending[s].error),
                           outcome)
    IN
    /\ pc[s] = "post"
    /\ IF CALLBACK_URL = ""
       THEN outcome = "2xx" /\ UNCHANGED log
       ELSE log' = [log EXCEPT ![s] =
                       IF outcome = "2xx" THEN Append(@, event)
                       ELSE Append(Append(@, event), event)]
    /\ pc' = [pc EXCEPT ![s] = "done"]
    /\ UNCHANGED <<CALLBACK_URL, WORKER_SECRET, http, called, scraped, SKILL_TIERS, writer, request, profile, idx,
                   jobs, seen, pending, raised>>

\* _post_callback with the pending arguments; run_scrape_job ends after it
\* (the log line after the completed callback formats numbers only)
PostCallback(s, outcome) ==
    /\ pc[s] = "post"
    /\ IF CALLBACK_URL = ""
       THEN /\ outcome = "2xx"
            /\ pc' = [pc EXCEPT ![s] = "done"]
            /\ UNCHANGED <<log, pending, raised>>
       ELSE /\ log' = [log EXCEPT ![s] = Append(@, PostEvent(
                          Payload(request[s].submissionId, pending[s].status,
                                  pending[s].job_count, pending[s].error),
                          outcome))]
            /\ IF PostRaises(outcome) /\ ~CaughtInPost(outcome)
                  /\ pending[s].status = "completed"
               THEN Handler(s, "post", "callback failed")
               ELSE /\ pc' = [pc EXCEPT ![s] = "done"]
                    /\ UNCHANGED <<pending, raised>>
    /\ UNCHANGED <<CALLBACK_URL, WORKER_SECRET, http, called, scraped, SKILL_TIERS, writer, request, profile, idx,
                   jobs, seen>>

\* the finished task and its request are dropped; the slot takes the next one
Discard(s) ==
    /\ pc[s] = "done"
    /\ pc' = [pc EXCEPT ![s] = "idle"]
    /\ request' = [request EXCEPT ![s] = NoRequest]
    /\ profile' = [profile EXCEPT ![s] = NoProfile]
    /\ idx' = [idx EXCEPT ![s] = 0]
    /\ jobs' = [jobs EXCEPT ![s] = NoJobs]
    /\ pending' = [pending EXCEPT ![s] = NoPending]
    /\ raised' = [raised EXCEPT ![s] = {}]
    /\ seen' = [seen EXCEPT ![s] = EmptyMap]
    /\ scraped' = [scraped EXCEPT ![s] = {}]
    /\ log' = [log EXCEPT ![s] = <<>>]
    /\ called' = [called EXCEPT ![s] = {}]
    /\ UNCHANGED <<CALLBACK_URL, WORKER_SECRET, http, SKILL_TIERS, writer>>

\* what the collaborators of a run can do: the frames scrape_all returns, the
\* messages of the exceptions raised, the results of send_email, the outcomes
\* of requests.post and the values of score_job
Env(frames, msgs, sends, posts, scores) ==
    [frames |-> frames, msgs |-> msgs, sends |-> sends, posts |-> posts,
     scores |-> scores]

\* everything run_scrape_job does after it has started
Pipeline(s, env) ==
    \/ ConvertStep(s)
    \/ ConvertReturn(s)
    \/ \E df \in env.frames : Scrape(s, df)
    \/ \E msg \in env.msgs : ScrapeRaise(s, msg)
    \/ \E result \in env.sends : SendEmpty(s, result)
    \/ \E msg \in env.msgs : SendEmptyRaise(s, msg)
    \/ Filter(s)
    \/ \E v \in env.scores : ScoreRow(s, v)
    \/ \E msg \in env.msgs : ScoreRaise(s, msg)
    \/ ScoreDone(s)
    \/ \E result \in env.sends : Notify(s, result)
    \/ \E msg \in env.msgs : RenderRaise(s, msg)
    \/ \E msg \in env.msgs : NotifyRaise(s, msg)
    \/ \E outcome \in env.posts : PostCallback(s, outcome)
    \/ Discard(s)

\* the profiles of the pool specification: the same skill under two tiers,
\* no skill at all, and two skills
FewProfiles ==
    [skills : { <<>>,
                <<[name |-> <<"P","y">>, tier |-> "core"]>>,
                <<[name |-> <<"p","y">>, tier |-> "peripheral"]>>,
                <<[name |-> <<"g","o">>, tier |-> "strong"],
                  [name |-> <<"p","y">>, tier |-> "guru"]>> },
     titles : {<<"engineer">>}, keywords : {<<"ml", "ml">>}]

FewRequests(s) ==
    [submissionId : {s}, email : {"user@example.com"}, profile : FewProfiles,
     preferences : {DefaultPreferences}]

\* the requests of the pipeline specification: no skill, or two skills
PipelineRequests(s) ==
    {req \in FewRequests(s) : Len(req.profile.skills) # 1}

\* collaborators that return one frame of each branch and fail in one way
LeanEnv ==
    Env({FrameOf(<<>>), FrameOf(<<StrCell(Sydney)>>)}, {"boom"}, {"sent"},
        {"2xx"}, {20})

\* collaborators in all their variety
FullEnv ==
    Env(Frames(MaxJobs), Msgs, {"sent", "not_sent"}, PostOutcomes, ScoreVals)

\* no other run is under way
Alone(s) == \A t \in Subs \ {s} : pc[t] = "idle"

\* The pipeline, one submission after another, with all collaborator results.
Next ==
    \E s \in Subs :
        \/ Alone(s) /\ pc[s] = "idle" /\ \E req \in PipelineRequests(s) :
                 \E h \in GoodHeaders : start_scrape(s, req, h)
        \/ RunStart(s)
        \/ Pipeline(s, FullEnv)

Spec == Init /\ [][Next]_vars

\* Concurrent runs: two submissions, each in its own thread of the pool,
\* interleaved with each other at every step.
Racers == {1, 2}

NextPool ==
    \E s \in Racers :
        \/ pc[s] = "idle" /\ \E req \in FewRequests(s) :
                 \E h \in GoodHeaders : start_scrape(s, req, h)
        \/ RunStart(s)
        \/ Pipeline(s, LeanEnv)

SpecPool == Init /\ [][NextPool]_vars

\* The profile adapter, one submission after another, over all profiles.
NextAdapt ==
    \E s \in Subs :
        \/ Alone(s) /\ pc[s] = "idle"
              /\ \E req \in ScrapeRequest(s, MaxSkills) :
                     \E h \in GoodHeaders : start_scrape(s, req, h)
        \/ RunStart(s)
        \/ Pipeline(s, LeanEnv)

SpecAdapt == Init /\ [][NextAdapt]_vars

\* the requests of the preference specification: one profile of two skills,
\* every Preferences record
PreferenceRequests(s) ==
    [submissionId : {s}, email : {"user@example.com"},
     profile : {p \in FewProfiles : Len(p.skills) = 2},
     preferences : Preferences(MaxLocs)]

\* The preference resolver, one submission after another, over all
\* Preferences records.
NextPrefs ==
    \E s \in Subs :
        \/ Alone(s) /\ pc[s] = "idle"
              /\ \E req \in PreferenceRequests(s) :
                     \E h \in GoodHeaders : start_scrape(s, req, h)
        \/ RunStart(s)
        \/ Pipeline(s, LeanEnv)

SpecPrefs == Init /\ [][NextPrefs]_vars

\* The endpoint: requests with every Authorization header, arriving while
\* other runs are under way.
NextAuth ==
    \E s \in Racers :
        \/ pc[s] = "idle" /\ \E req \in PipelineRequests(s) :
                 \E h \in Headers : start_scrape(s, req, h)
        \/ RunStart(s)
        \/ Pipeline(s, LeanEnv)

SpecAuth == Init /\ [][NextAuth]_vars

\* a step of the run in slot s, from the start of the task to its return
Run(s) == RunStart(s) \/ (pc[s] # "done" /\ Pipeline(s, LeanEnv))

\* The endpoint and the pool under fair scheduling: a run that can take a
\* step is not left waiting for ever (each task has a thread of the pool, and
\* every collaborator call returns or raises).
SpecLive == Init /\ [][NextAuth]_vars /\ \A s \in Racers : WF_vars(Run(s))

\* ------------------------------------------------------------------------
\* Properties
\* ------------------------------------------------------------------------
Configured == CALLBACK_URL # ""

IsEmail(e) == e.ev = "email"

IsPost(e) == e.ev = "post"

Emails(s) == SelectSeq(log[s], IsEmail)

Posts(s) == SelectSeq(log[s], IsPost)

RaisedAt(s, stages) == \E x \in raised[s] : x.at \in stages

ScrapedEmpty(s) == \E df \in scraped[s] : IsEmpty(df)

\* C1: a run makes no callback POST before its end, at most one in all,
\* exactly one by the time it is done when CALLBACK_URL is set and none when
\* it is not, and every POST carries the run's own submissionId; so a
\* completed report never comes with a failed one.
C1_ExactlyOnePost ==
    \A s \in Subs :
        /\ Len(Posts(s)) <= 1
        /\ ~Configured => Posts(s) = <<>>
        /\ pc[s] # "done" => Posts(s) = <<>>
        /\ Configured /\ pc[s] = "done" => Len(Posts(s)) = 1
        /\ \A n \in DOMAIN Posts(s) :
               Posts(s)[n].payload.submissionId = request[s].submissionId

C1_Witness ==
    \E s \in Subs :
        /\ pc[s] = "done"
        /\ Len(Posts(s)) = 1
        /\ Posts(s)[1].payload.status = "completed"
        /\ Posts(s)[1].outcome = "timeout"

\* C2: in the record of a run every email send attempt comes before every
\* callback POST, and no POST has been made while a send is still to come.
C2_PostAfterEmail ==
    \A s \in Subs :
        /\ \A i, j \in DOMAIN log[s] :
               IsEmail(log[s][i]) /\ IsPost(log[s][j]) => i < j
        /\ pc[s] \in {"empty_notify", "notify"} => Posts(s) = <<>>

C2_Witness ==
    \E s \in Subs :
        /\ Len(log[s]) = 2
        /\ IsEmail(log[s][1]) /\ log[s][1].kind = "digest"
        /\ IsPost(log[s][2])

C4_FailedReport ==
    \A s \in Subs :
        raised[s] # {} /\ Configured /\ pc[s] = "done" =>
            /\ Len(Posts(s)) = 1
            /\ Posts(s)[1].payload.status = "failed"
            /\ Posts(s)[1].payload.jobCount = 0
            /\ "error" \in DOMAIN Posts(s)[1].payload
            /\ \A x \in raised[s] : Posts(s)[1].payload.error = x.msg

C6_PostFailureIsFinal ==
    \A s \in Subs :
        \A n \in DOMAIN log[s] :
            IsPost(log[s][n]) /\ log[s][n].outcome # "2xx" =>
                /\ n = Len(log[s])
                /\ Len(Posts(s)) = 1
                /\ pc[s] = "done"
                /\ ~RaisedAt(s, {"post"})
                /\ pending[s].status = log[s][n].payload.status
                /\ log[s][n].payload.status = "completed" => raised[s] = {}

C6_Witness ==
    \E s \in Subs :
        /\ pc[s] = "done"
        /\ Len(Posts(s)) = 1
        /\ Posts(s)[1].outcome = "error"
        /\ Posts(s)[1].payload.status = "completed"
        /\ pending[s].status = "completed"

\* C7: a run whose scoring step raised has attempted no email, up to and
\* after its failed callback.
C7_NoEmailWhenScoringRaises ==
    \A s \in Subs : RaisedAt(s, {"score"}) => Emails(s) = <<>>

C7_Witness ==
    \E s \in Subs :
        /\ RaisedAt(s, {"score"})
        /\ pc[s] = "done"
        /\ Len(log[s]) = 1
        /\ log[s][1].payload.status = "failed"

OwnWeight(s, key) == LastWeight(request[s].profile.skills, key)

\* C8: in concurrent runs, whatever score_job reads for a skill of its
\* submission is an entry some convert_profile wrote, and it is the
\* submission's own weight whenever its own convert_profile wrote it last;
\* the witness is the other case, a read of the weight another submission
\* wrote that differs from its own.
C8_OwnWeightUnlessOverwritten ==
    \A s \in Subs :
        \A k \in DOMAIN seen[s] :
            /\ seen[s][k].by \in Subs
            /\ seen[s][k].by = s => seen[s][k].w = OwnWeight(s, k)

C8_Witness ==
    \E s, t \in Subs :
        /\ s # t
        /\ request[s].profile.skills = <<[name |-> <<"P","y">>, tier |-> "core"]>>
        /\ request[t].profile.skills = <<[name |-> <<"p","y">>, tier |-> "peripheral"]>>
        /\ py \in DOMAIN seen[s]
        /\ seen[s][py] = [w |-> 1, by |-> t]
        /\ OwnWeight(s, py) = 5

\* C9 as claimed: right after convert_profile returns, with no other run
\* interleaved, the table has, for every skill of the profile, an entry
\* under the lowercased name that equals the weight of that skill's tier.
C9_Original ==
    \A s \in Subs :
        pc[s] = "scrape" =>
            \A n \in DOMAIN request[s].profile.skills :
                LET skill == request[s].profile.skills[n] IN
                /\ Lower(skill.name) \in DOMAIN SKILL_TIERS
                /\ SKILL_TIERS[Lower(skill.name)] = SpecWeight(skill.tier)

\* C9 as amended: right after convert_profile returns, with no other run
\* interleaved, the table has, for every skill of the profile, an entry
\* under the lowercased name, and it equals the weight (5, 3, 1, and 1 for
\* an unrecognized tier) of the tier of the last skill of the profile that
\* has this lowercased name.
C9_LastSkillWins ==
    \A s \in Subs :
        pc[s] = "scrape" =>
            \A n \in DOMAIN request[s].profile.skills :
                LET key == Lower(request[s].profile.skills[n].name) IN
                /\ key \in DOMAIN SKILL_TIERS
                /\ SKILL_TIERS[key] = OwnWeight(s, key)

C9_Witness ==
    \E s \in Subs :
        /\ pc[s] = "scrape"
        /\ request[s].profile.skills =
               <<[name |-> <<"P","y">>, tier |-> "core"],
                 [name |-> <<"p","y">>, tier |-> "guru"]>>
        /\ SKILL_TIERS[py] = 1

\* every key some submission wrote holds the weight of the last submission
\* that named it, whenever no convert_profile is under way
MostRecentWins ==
    (\A s \in Subs : pc[s] # "convert") =>
        \A k \in DOMAIN writer :
            k \in DOMAIN SKILL_TIERS /\ SKILL_TIERS[k] = writer[k].w

\* some run is inside convert_profile with a profile that names the key
Adapting(key) ==
    \E s \in Subs :
        pc[s] = "convert" /\ key \in SkillKeys(request[s].profile.skills)

\* a step removes no entry, and changes or adds entries only under keys of
\* a profile being adapted
FrameStep ==
    /\ \A k \in DOMAIN SKILL_TIERS :
           /\ k \in DOMAIN SKILL_TIERS'
           /\ SKILL_TIERS'[k] # SKILL_TIERS[k] => Adapting(k)
    /\ \A k \in DOMAIN SKILL_TIERS' : k \notin DOMAIN SKILL_TIERS => Adapting(k)

\* C10: when no convert_profile is under way in runs made one after
\* another, every key some submission wrote holds the weight of the last
\* submission that named it; and no step removes an entry or changes an
\* entry (or adds one) under a key that is not the lowercased name of a
\* skill of the profile being adapted.
C10_MostRecentWins == []MostRecentWins /\ [][FrameStep]_vars

C10_Witness ==
    \E s, t \in Subs :
        /\ s # t
        /\ pc[t] = "scrape"
        /\ go \notin SkillKeys(request[t].profile.skills)
        /\ py \in DOMAIN writer /\ writer[py].by = t
        /\ go \in DOMAIN writer /\ writer[go].by = s
        /\ SKILL_TIERS[go] = 3
        /\ SKILL_TIERS[py] = 1

\* a run is put in slot s by this step
Enqueued(s) == pc[s] = "idle" /\ pc'[s] = "queued"

\* this step answers a request on POST /api/scrape
Answered == http' # http

\* the acknowledgement of an accepted request for the run put in slot s
Acknowledged(s) ==
    /\ http'.code = 200
    /\ http'.body.status = "queued"
    /\ http'.body.submissionId = request'[s].submissionId

\* what every step of the endpoint keeps to, whatever the header rule is
AuthStep(absent) ==
    /\ \A s \in Subs : Enqueued(s) =>
          /\ WORKER_SECRET # ""
          /\ http'.authorization = {WORKER_SECRET}
          /\ Acknowledged(s)
          /\ \A t \in Subs \ {s} : pc'[t] = pc[t]
    /\ Answered /\ WORKER_SECRET = "" /\ http'.authorization \in absent =>
          http'.code = 500 /\ pc' = pc
    /\ Answered /\ WORKER_SECRET # "" /\ http'.authorization # {}
          /\ http'.authorization # {WORKER_SECRET} =>
          http'.code = 401 /\ pc' = pc
    /\ Answered /\ http'.code = 200 => \E s \in Subs : Enqueued(s)

\* C11 as stated: a run is enqueued only when the secret is configured and
\* the bearer token equals it; with the secret absent every request, with or
\* without bearer credentials, is answered 500; with a token that does not
\* match the answer is 401; neither enqueues anything; an accepted request
\* enqueues exactly one run and is acknowledged as queued under its own id.
C11_Original == [][AuthStep({{}, {Secret}, {WrongToken}})]_vars

\* C11: a run is enqueued only when the secret is configured and the bearer
\* token equals it; with the secret absent every request that carries
\* bearer credentials is answered 500; with a token that does not match the
\* answer is 401; neither enqueues anything; an accepted request enqueues
\* exactly one run and is acknowledged as queued under its own id.
C11_AuthBeforeEnqueue == [][AuthStep({{Secret}, {WrongToken}})]_vars

\* an accepted request: acknowledged as queued, its run waiting in the pool,
\* while the other slot still runs an earlier submission
C11_Witness ==
    \E s \in Subs :
        /\ pc[s] = "queued"
        /\ http.code = 200
        /\ http.authorization = {WORKER_SECRET}
        /\ http.body.submissionId = request[s].submissionId
        /\ \E t \in Subs \ {s} : pc[t] \notin {"idle", "queued", "done"}

\* the stages of a run in the order run_scrape_job passes them
Stage(at) ==
    CASE at = "idle" -> 0
      [] at = "queued" -> 1
      [] at = "convert" -> 2
      [] at = "scrape" -> 3
      [] at \in {"empty_notify", "filter"} -> 4
      [] at = "score" -> 5
      [] at = "notify" -> 6
      [] at = "post" -> 7
      [] at = "done" -> 8

\* the run in slot s has returned: after the completed callback and no
\* exception, or after the failed callback of the catch-all handler
Terminal(s) ==
    /\ pc[s] = "done"
    /\ \/ pending[s].status = "completed" /\ raised[s] = {}
       \/ pending[s].status = "failed" /\ raised[s] # {}
    /\ Configured =>
          /\ Len(Posts(s)) = 1
          /\ Posts(s)[1].payload.status = pending[s].status

\* a run moves forward only: the stage never falls, nor does a run leave the
\* pool before it has returned
ForwardOnly ==
    \A s \in Subs :
        pc'[s] # pc[s] =>
            \/ Stage(pc'[s]) > Stage(pc[s])
            \/ pc[s] = "done" /\ pc'[s] = "idle"

\* a run that has not returned can take a step, whatever the other does
NeverWaits ==
    \A s \in Racers : pc[s] \notin {"idle", "done"} => ENABLED Run(s)

\* C12: every enqueued submission reaches a terminal state (returned after
\* its completed or its failed callback), under fair scheduling and with
\* collaborators that return or raise; meanwhile no step cancels a run or
\* takes it back to an earlier stage, and a run that has not returned can
\* always take a step, whatever stage the other run is in.
C12_RunsToTerminal ==
    /\ \A s \in Racers : (pc[s] = "queued") ~> Terminal(s)
    /\ [](\A s \in Racers : pc[s] = "done" => Terminal(s))
    /\ [][ForwardOnly]_vars
    /\ []NeverWaits

\* both runs are under way at once, one already in the catch-all handler's
\* callback and the other still scoring, and the first returns as failed
\* while the second is where it was
C12_Witness ==
    \E s, t \in Racers :
        /\ s # t
        /\ Terminal(s) /\ pending[s].status = "failed"
        /\ pc[t] = "score"

\* C13: a run whose Preferences have no locations calls the scraper with the
\* default locations, LOCATIONS itself; one whose Preferences have no roles
\* calls it with the default search terms, ROLE_SEARCHES; roles that are
\* given are the search terms, as they came.
C13_DefaultsWhenEmpty ==
    \A s \in Subs : \A c \in called[s] :
        LET preferences == request[s].preferences IN
        /\ preferences.locations = <<>> => c.locations = LOCATIONS
        /\ preferences.roles = <<>> => c.search_terms = ROLE_SEARCHES
        /\ preferences.roles # <<>> => c.search_terms = preferences.roles

\* the scraper has returned from a call made with both defaults
C13_Witness ==
    \E s \in Subs : \E c \in called[s] :
        /\ request[s].preferences.locations = <<>>
        /\ request[s].preferences.roles = <<>>
        /\ c.locations = LOCATIONS /\ c.search_terms = ROLE_SEARCHES
        /\ scraped[s] # {}

\* how often a string occurs in a list
Count(list, x) == Cardinality({n \in DOMAIN list : list[n] = x})

\* C14: when the locations of the Preferences hold a string that loc_map
\* knows after lowercasing and trimming, the locations the scraper is called
\* with hold its mapped full form exactly once, whatever else the list holds.
C14_MappedExactlyOnce ==
    \A s \in Subs : \A c \in called[s] :
        LET locs == request[s].preferences.locations IN
        \A n \in DOMAIN locs : \A m \in Mapped(locs[n]) :
            Count(c.locations, m) = 1

\* a string that is empty once trimmed
Blank(str) == Strip(str) = <<>>

\* C15: when the locations of the Preferences are not empty and every entry
\* resolves to nothing but blanks, the scraper is called with the default
\* locations; an entry that loc_map does not know and that is not blank is
\* among the locations of the call as it came.
C15_FallbackWhenNothingResolves ==
    \A s \in Subs : \A c \in called[s] :
        LET locs == request[s].preferences.locations IN
        /\ locs # <<>> /\ (\A n \in DOMAIN locs : Blank(ResolveOne(locs[n])))
              => c.locations = LOCATIONS
        /\ \A n \in DOMAIN locs :
              Mapped(locs[n]) = {} /\ ~Blank(locs[n])
                  => Count(c.locations, locs[n]) >= 1

\* the rows of the run in slot s that came through the geo filter, as the
\* filter left them
Survivors(s) == UNION {{GeoFilter(df).rows} : df \in scraped[s]}

\* the same row, before and after it was scored
SameRow(row, scored) ==
    /\ scored.id = row.id
    /\ "location" \in DOMAIN row => scored.location = row.location

\* C16: when the scrape was not empty, the rows about to be handed to
\* render_email_html are in non-increasing order of score, and each row that
\* came through the geo filter is among them exactly once, with no other row.
C16_SortedPermutation ==
    \A s \in Subs :
        pc[s] = "notify" =>
            LET rows == jobs[s].rows IN
            /\ \A a, b \in DOMAIN rows : a < b => rows[a].score >= rows[b].score
            /\ \A kept \in Survivors(s) :
                  /\ Len(rows) = Len(kept)
                  /\ \A n \in DOMAIN kept :
                        Cardinality({m \in DOMAIN rows : SameRow(kept[n], rows[m])}) = 1

\* two rows, the second scored higher than the first, handed to the renderer
\* in the other order
C16_Witness ==
    \E s \in Subs :
        /\ pc[s] = "notify"
        /\ Len(jobs[s].rows) = 2
        /\ jobs[s].rows[1].id = 2 /\ jobs[s].rows[2].id = 1
        /\ jobs[s].rows[1].score > jobs[s].rows[2].score

\* the location text the geo filter searches: lowercased, empty when missing
LocationText(row) ==
    IF row.location.kind = "nan" THEN <<>> ELSE Lower(row.location.text)

\* does the location text of the row hold one of the five tokens
HoldsToken(row) == \E c \in target_cities : Contains(LocationText(row), c)

\* a step in which the geo filter of the run in slot s returns
Filtered(s) == pc[s] = "filter" /\ pc'[s] = "score"

FilterKeeps ==
    \A s \in Subs :
        /\ Filtered(s) /\ jobs[s].hasLocation =>
              jobs'[s].rows = SelectSeq(jobs[s].rows, HoldsToken)
        /\ pc[s] = "filter" /\ ~jobs[s].hasLocation /\ pc'[s] # pc[s] =>
              Filtered(s) /\ jobs'[s] = jobs[s] /\ raised'[s] = {}

\* C17: on a frame with a location column the geo filter returns the rows
\* whose location text, lowercased and empty when missing, holds one of
\* adelaide, sydney, melbourne, remote, australia, in the order they had; on
\* a frame without the column it returns the frame as it was and raises
\* nothing.
C17_GeoFilterExact == [][FilterKeeps]_vars

\* the filter has kept the second of two rows and dropped the first
C17_Witness ==
    \E s \in Subs : \E df \in scraped[s] :
        /\ pc[s] = "score" /\ idx[s] = 1
        /\ df.hasLocation /\ Len(df.rows) = 2
        /\ ~HoldsToken(df.rows[1]) /\ HoldsToken(df.rows[2])
        /\ jobs[s].rows = <<df.rows[2]>>

\* C18: rows of equal score are handed to the renderer in the order the geo
\* filter left them.
C18_StableSort ==
    \A s \in Subs :
        pc[s] = "notify" =>
            LET rows == jobs[s].rows IN
            \A a, b \in DOMAIN rows :
                a < b /\ rows[a].score = rows[b].score => rows[a].id < rows[b].id

\* the scrape of the run in slot s returned rows and the geo filter kept none
AllFilteredOut(s) ==
    /\ ~ScrapedEmpty(s)
    /\ \E kept \in Survivors(s) : kept = <<>>
    /\ pc[s] \notin {"scrape", "filter"}

\* C19: a run attempts at most one email send; an attempted send is the
\* empty-result notice exactly when scrape_all returned no rows and the
\* digest exactly when it returned some; a run whose non-empty scrape was
\* filtered down to nothing and that returned without an exception sent one
\* digest, no notice, and reported completed with a job count of 0.
C19_OneEmailByScrapeResult ==
    \A s \in Subs :
        /\ Len(Emails(s)) <= 1
        /\ \A n \in DOMAIN Emails(s) :
              /\ Emails(s)[n].kind = "empty" <=> ScrapedEmpty(s)
              /\ Emails(s)[n].kind = "digest" <=> ~ScrapedEmpty(s) /\ scraped[s] # {}
        /\ ScrapedEmpty(s) /\ pc[s] \in {"post", "done"} => Len(Emails(s)) = 1
        /\ AllFilteredOut(s) /\ pc[s] = "done" /\ raised[s] = {} =>
              /\ Len(Emails(s)) = 1
              /\ Emails(s)[1].kind = "digest"
              /\ pending[s].status = "completed" /\ pending[s].job_count = 0
              /\ \A n \in DOMAIN Posts(s) :
                    /\ Posts(s)[n].payload.status = "completed"
                    /\ Posts(s)[n].payload.jobCount = 0

\* a run whose scrape returned a row that the geo filter dropped has sent
\* the digest and posted completed with a job count of 0
C19_Witness ==
    \E s \in Subs :
        /\ AllFilteredOut(s) /\ pc[s] = "done" /\ raised[s] = {}
        /\ Len(Emails(s)) = 1 /\ Emails(s)[1].kind = "digest"
        /\ Len(Posts(s)) = 1
        /\ Posts(s)[1].payload.status = "completed"
        /\ Posts(s)[1].payload.jobCount = 0

\* the run in slot s is past the digest and reports completed
CompletedDigest(s) ==
    /\ pc[s] \in {"post", "done"}
    /\ pending[s].status = "completed"
    /\ ~ScrapedEmpty(s)

\* C20: on the digest branch the job count of the completed callback is the
\* number of rows the geo filter left, whatever their scores and whatever
\* send_email returned; so it is no more than the number of rows scraped and
\* no less than the number of relevant rows the subject line states.
C20_JobCountIsSurvivors ==
    \A s \in Subs :
        CompletedDigest(s) =>
            /\ \A kept \in Survivors(s) : pending[s].job_count = Len(kept)
            /\ \A df \in scraped[s] : pending[s].job_count <= Len(df.rows)
            /\ \A n \in DOMAIN Emails(s) : pending[s].job_count >= Emails(s)[n].above
            /\ \A n \in DOMAIN Posts(s) :
                  Posts(s)[n].payload.jobCount = pending[s].job_count

\* of two rows scraped one came through the filter and scored under the
\* threshold, the digest was not sent, and the callback posted a job count
\* of 1
C20_Witness ==
    \E s \in Subs : \E df \in scraped[s] :
        /\ CompletedDigest(s) /\ pc[s] = "done"
        /\ Len(df.rows) = 2
        /\ Len(Emails(s)) = 1
        /\ Emails(s)[1].result = "not_sent" /\ Emails(s)[1].above = 0
        /\ Len(Posts(s)) = 1 /\ Posts(s)[1].payload.jobCount = 1
====
